---- MODULE Spec2Model ----
(***************************************************************************)
(* A model of shai.py: the configuration store (dotted-key maps and their  *)
(* TOML file), the configuration resolver, the session-log reader and the  *)
(* command-line dispatcher.                                                *)
(*                                                                         *)
(* A Python str is a sequence of one-character strings.  A Python value is *)
(* a record with a type tag t and one field per type (b, n, s, d); a dict  *)
(* is the sequence of its items in insertion order.                        *)
(***************************************************************************)
EXTENDS Integers, Sequences, FiniteSets, TLC

VARIABLES
    config,      \* the in-memory map an operation of the store is applied to
    op,          \* the last store/resolver operation and what it returned
    file,        \* the config file on disk: [exists, text]
    environ,     \* os.environ: variable name -> [set, val]
    sessionLog,  \* the session file on disk: [exists, text]
    run,         \* the last invocation of main(): its arguments and outcome
    steps        \* number of operations applied so far

vars == <<config, op, file, environ, sessionLog, run, steps>>

(***************************************************************************)
(* Python values                                                           *)
(***************************************************************************)
PyNone == [t |-> "none", b |-> FALSE, n |-> 0, s |-> <<>>, d |-> <<>>]

PyBool(x) == [t |-> "bool", b |-> x, n |-> 0, s |-> <<>>, d |-> <<>>]

PyInt(x) == [t |-> "int", b |-> FALSE, n |-> x, s |-> <<>>, d |-> <<>>]

PyStr(x) == [t |-> "str", b |-> FALSE, n |-> 0, s |-> x, d |-> <<>>]

PyDict(x) == [t |-> "dict", b |-> FALSE, n |-> 0, s |-> <<>>, d |-> x]

IsDict(v) == v.t = "dict"

\* Python truthiness: bool(v)
Truthy(v) ==
    CASE v.t = "none" -> FALSE
      [] v.t = "bool" -> v.b
      [] v.t = "int" -> v.n # 0
      [] v.t = "str" -> v.s # <<>>
      [] v.t = "dict" -> v.d # <<>>

\* key in d, for the item sequence d of a dict
HasKey(d, k) == \E i \in 1..Len(d) : d[i].k = k

\* d[k]
Lookup(d, k) == d[CHOOSE i \in 1..Len(d) : d[i].k = k].v

\* d[k] = v: an existing key keeps its place, a new key goes last
Store(d, k, v) ==
    IF HasKey(d, k)
    THEN [i \in 1..Len(d) |-> IF d[i].k = k THEN [k |-> k, v |-> v] ELSE d[i]]
    ELSE Append(d, [k |-> k, v |-> v])

\* del d[k]
Remove(d, k) == SelectSeq(d, LAMBDA e : e.k # k)

DictKeys(d) == {d[i].k : i \in 1..Len(d)}

\* == on Python values: dicts compare as mappings, whatever the item order
RECURSIVE PyEq(_, _)
PyEq(x, y) ==
    IF IsDict(x) /\ IsDict(y)
    THEN /\ DictKeys(x.d) = DictKeys(y.d)
         /\ \A k \in DictKeys(x.d) : PyEq(Lookup(x.d, k), Lookup(y.d, k))
    ELSE x = y

\* needle in haystack, for two str
IsSubstring(needle, hay) ==
    \E i \in 0..(Len(hay) - Len(needle)) :
        \A j \in 1..Len(needle) : hay[i + j] = needle[j]

\* `part in target`: "yes", "no" or "TypeError" (int and bool are not iterable)
PyIn(part, target) ==
    CASE target.t = "dict" -> IF HasKey(target.d, part) THEN "yes" ELSE "no"
      [] target.t = "str" -> IF IsSubstring(part, target.s) THEN "yes" ELSE "no"
      [] OTHER -> "TypeError"

\* str.split(sep) for a one-character separator
RECURSIVE Split(_, _)
Split(s, sep) ==
    IF \A i \in 1..Len(s) : s[i] # sep
    THEN <<s>>
    ELSE LET i == CHOOSE i \in 1..Len(s) :
                      s[i] = sep /\ \A j \in 1..(i - 1) : s[j] # sep
         IN  <<SubSeq(s, 1, i - 1)>> \o Split(SubSeq(s, i + 1, Len(s)), sep)

\* sep.join(parts)
RECURSIVE Join(_, _)
Join(parts, sep) ==
    IF parts = <<>> THEN <<>>
    ELSE IF Len(parts) = 1 THEN parts[1]
    ELSE parts[1] \o sep \o Join(Tail(parts), sep)

(***************************************************************************)
(* Config store: dotted keys                                               *)
(***************************************************************************)
\* the loop of get_nested over the remaining parts
RECURSIVE GetPath(_, _, _)
GetPath(value, parts, default) ==
    IF parts = <<>> THEN value
    ELSE IF IsDict(value) /\ HasKey(value.d, Head(parts))
         THEN GetPath(Lookup(value.d, Head(parts)), Tail(parts), default)
         ELSE default

get_nested(cfg, key, default) == GetPath(PyDict(cfg), Split(key, "."), default)

\* set_nested from `target` on: [raised, v], v the target after the assignment.
\* A target that is no dict raises TypeError: `part not in target` does for an
\* int or a bool, and for a str either target[part] = {} or target[part] does.
RECURSIVE SetPath(_, _, _)
SetPath(target, parts, value) ==
    IF ~IsDict(target) THEN [raised |-> TRUE, v |-> target]
    ELSE IF Len(parts) = 1
         THEN [raised |-> FALSE, v |-> PyDict(Store(target.d, parts[1], value))]
         ELSE LET part == Head(parts)
                  child == IF PyIn(part, target) = "no"
                           THEN PyDict(<<>>)
                           ELSE Lookup(target.d, part)
                  r == SetPath(child, Tail(parts), value)
              IN  [raised |-> r.raised, v |-> PyDict(Store(target.d, part, r.v))]

\* set_nested(config, key, value): [raised, cfg]
set_nested(cfg, key, value) ==
    LET r == SetPath(PyDict(cfg), Split(key, "."), value)
    IN  [raised |-> r.raised, cfg |-> r.v.d]

\* unset_nested from `target` on: [raised, ret, v]
RECURSIVE UnsetPath(_, _)
UnsetPath(target, parts) ==
    LET part == Head(parts)
        found == PyIn(part, target)
    IN  IF found = "TypeError" THEN [raised |-> TRUE, ret |-> FALSE, v |-> target]
        ELSE IF found = "no" THEN [raised |-> FALSE, ret |-> FALSE, v |-> target]
        ELSE IF ~IsDict(target)
             \* a str: target[part] and del target[part] raise TypeError
             THEN [raised |-> TRUE, ret |-> FALSE, v |-> target]
        ELSE IF Len(parts) = 1
             THEN [raised |-> FALSE, ret |-> TRUE, v |-> PyDict(Remove(target.d, part))]
             ELSE LET r == UnsetPath(Lookup(target.d, part), Tail(parts))
                  IN  [raised |-> r.raised, ret |-> r.ret,
                       v |-> PyDict(Store(target.d, part, r.v))]

\* unset_nested(config, key): [raised, ret, cfg]
unset_nested(cfg, key) ==
    LET r == UnsetPath(PyDict(cfg), Split(key, "."))
    IN  [raised |-> r.raised, ret |-> r.ret, cfg |-> r.v.d]

(***************************************************************************)
(* Config resolver                                                         *)
(***************************************************************************)
\* os.environ.get(name): None when unset, else the str
EnvGet(env, name) ==
    IF name \in DOMAIN env /\ env[name].set THEN PyStr(env[name].val) ELSE PyNone

\* resolve_config_value with its second test, the environment, taken before
\* its first, the CLI value
ResolveEnvFirst(key, cli_value, env_var, env, cfg, default) ==
    IF env_var # "" /\ Truthy(EnvGet(env, env_var))
    THEN [value |-> EnvGet(env, env_var), source |-> "env"]
    ELSE IF cli_value # PyNone
    THEN [value |-> cli_value, source |-> "cli"]
    ELSE IF get_nested(cfg, key, PyNone) # PyNone
    THEN [value |-> get_nested(cfg, key, PyNone), source |-> "config"]
    ELSE [value |-> default, source |-> "default"]

\* resolve_config_value; `env` is os.environ, env_var = "" stands for None
resolve_config_value(key, cli_value, env_var, env, cfg, default) ==
    IF cli_value # PyNone
    THEN [value |-> cli_value, source |-> "cli"]
    ELSE IF env_var # "" /\ Truthy(EnvGet(env, env_var))
    THEN [value |-> EnvGet(env, env_var), source |-> "env"]
    ELSE IF get_nested(cfg, key, PyNone) # PyNone
    THEN [value |-> get_nested(cfg, key, PyNone), source |-> "config"]
    ELSE [value |-> default, source |-> "default"]

(***************************************************************************)
(* Names and other str constants of the program                            *)
(***************************************************************************)
S_model == <<"m", "o", "d", "e", "l">>

S_quiet == <<"q", "u", "i", "e", "t">>

S_session == <<"s", "e", "s", "s", "i", "o", "n">>

S_enabled == <<"e", "n", "a", "b", "l", "e", "d">>

S_dir == <<"d", "i", "r">>

S_size == <<"s", "i", "z", "e">>

S_aliases == <<"a", "l", "i", "a", "s", "e", "s">>

S_feedback == <<"f", "e", "e", "d", "b", "a", "c", "k">>

S_file == <<"f", "i", "l", "e">>

S_true == <<"t", "r", "u", "e">>

S_false == <<"f", "a", "l", "s", "e">>

Dotted(a, b) == a \o <<".">> \o b

VALID_CONFIG_KEYS ==
    { S_model, S_quiet, Dotted(S_session, S_enabled), Dotted(S_session, S_dir),
      Dotted(S_session, S_size), Dotted(S_aliases, S_enabled),
      Dotted(S_feedback, S_file) }

NoOp == [kind |-> "none"]

NoFile == [exists |-> FALSE, text |-> <<>>]

NoRun == [cmd |-> "none"]

(***************************************************************************)
(* Config file: writing TOML                                               *)
(***************************************************************************)
Digits == <<"0", "1", "2", "3", "4", "5", "6", "7", "8", "9">>

DigitChars == {Digits[i] : i \in 1..Len(Digits)}

DigitValue(c) == (CHOOSE i \in 1..Len(Digits) : Digits[i] = c) - 1

\* str(n) for an int
RECURSIVE IntToStr(_)
IntToStr(n) ==
    IF n < 0 THEN <<"-">> \o IntToStr(0 - n)
    ELSE IF n < Len(Digits) THEN <<Digits[n + 1]>>
    ELSE IntToStr(n \div Len(Digits)) \o <<Digits[(n % Len(Digits)) + 1]>>

\* int(s) for a str of ASCII digits
RECURSIVE StrToInt(_)
StrToInt(s) ==
    IF Len(s) = 1 THEN DigitValue(s[1])
    ELSE StrToInt(SubSeq(s, 1, Len(s) - 1)) * Len(Digits) + DigitValue(s[Len(s)])

\* _toml_value: the text of a bool, str or int.  The last branch of the code
\* (the str() of any other value, in quotes) takes None and a dict nested in a
\* section, which no map of this model holds.
_toml_value(value) ==
    CASE value.t = "bool" -> IF value.b THEN <<"t", "r", "u", "e">>
                             ELSE <<"f", "a", "l", "s", "e">>
      [] value.t = "str" -> <<"\"">> \o value.s \o <<"\"">>
      [] value.t = "int" -> IntToStr(value.n)

\* the f-string "{key} = {value}"
KeyValueLine(k, v) == k \o <<" ", "=", " ">> \o _toml_value(v)

\* the lines save_config collects: top-level scalars first, then each section
SaveLines(cfg) ==
    LET Top[i \in 0..Len(cfg)] ==
            IF i = 0 THEN <<>>
            ELSE IF IsDict(cfg[i].v) THEN Top[i - 1]
            ELSE Append(Top[i - 1], KeyValueLine(cfg[i].k, cfg[i].v))
        Section(e) ==
            LET Body[j \in 0..Len(e.v.d)] ==
                    IF j = 0 THEN <<>>
                    ELSE Append(Body[j - 1], KeyValueLine(e.v.d[j].k, e.v.d[j].v))
            IN  << <<"\n", "[">> \o e.k \o <<"]">> >> \o Body[Len(e.v.d)]
        Sections[i \in 0..Len(cfg)] ==
            IF i = 0 THEN <<>>
            ELSE IF IsDict(cfg[i].v) THEN Sections[i - 1] \o Section(cfg[i])
            ELSE Sections[i - 1]
    IN  Top[Len(cfg)] \o Sections[Len(cfg)]

\* save_config: the file it leaves on disk (the directory is created if needed)
save_config(cfg) ==
    [exists |-> TRUE, text |-> Join(SaveLines(cfg), <<"\n">>) \o <<"\n">>]

(***************************************************************************)
(* Config file: reading TOML (tomllib.load), for the grammar the files of  *)
(* this model use: bare keys, [table] headers, and values that are basic    *)
(* strings (one-line or multi-line), booleans or unsigned decimal integers. *)
(* A parse step returns [ok, pos, val]; ok = FALSE is a TOMLDecodeError.    *)
(* What lies outside this grammar (comments, quoted or dotted keys, arrays, *)
(* inline tables, literal strings, floats, dates, signed or prefixed        *)
(* numbers, \u escapes) matches no CASE arm, so TLC stops if a file of the  *)
(* model ever holds it.                                                     *)
(***************************************************************************)
Letters ==
    { "a", "b", "c", "d", "e", "f", "g", "h", "i", "j", "k", "l", "m", "n", "o",
      "p", "q", "r", "s", "t", "u", "v", "w", "x", "y", "z", "A", "B", "C", "D",
      "E", "F", "G", "H", "I", "J", "K", "L", "M", "N", "O", "P", "Q", "R", "S",
      "T", "U", "V", "W", "X", "Y", "Z" }

BareKeyChars == Letters \cup DigitChars \cup {"-", "_"}

TomlWs == {" ", "\t"}

\* control characters a str of the model can hold; "<BS>" stands for U+0008
CtrlChars == {"\n", "\t", "\r", "\f", "<BS>"}

\* BASIC_STR_ESCAPE_REPLACEMENTS: the character after the backslash -> the result
EscapeOf(c) ==
    CASE c = "b" -> "<BS>"
      [] c = "t" -> "\t"
      [] c = "n" -> "\n"
      [] c = "f" -> "\f"
      [] c = "r" -> "\r"
      [] c = "\"" -> "\""
      [] c = "\\" -> "\\"

SimpleEscapes == {"b", "t", "n", "f", "r", "\"", "\\"}

At(src, pos) == IF pos \in 1..Len(src) THEN src[pos] ELSE "<EOF>"

StartsWith(src, pos, prefix) ==
    /\ pos + Len(prefix) - 1 <= Len(src)
    /\ \A i \in 1..Len(prefix) : src[pos + i - 1] = prefix[i]

\* skip_chars: the first position at or after pos whose character is not in chars
RECURSIVE SkipChars(_, _, _)
SkipChars(src, pos, chars) ==
    IF At(src, pos) \in chars THEN SkipChars(src, pos + 1, chars) ELSE pos

Fail(pos) == [ok |-> FALSE, pos |-> pos, val |-> PyNone]

\* parse_basic_str from pos on, acc being the text read so far
RECURSIVE ParseBasicStr(_, _, _, _)
ParseBasicStr(src, pos, multiline, acc) ==
    LET c == At(src, pos)
        e == At(src, pos + 1)
    IN  IF c = "<EOF>" THEN Fail(pos)
        ELSE IF c = "\"" THEN
            IF ~multiline THEN [ok |-> TRUE, pos |-> pos + 1, val |-> PyStr(acc)]
            ELSE IF StartsWith(src, pos, <<"\"", "\"", "\"">>)
                 THEN [ok |-> TRUE, pos |-> pos + 3, val |-> PyStr(acc)]
                 ELSE ParseBasicStr(src, pos + 1, multiline, Append(acc, c))
        ELSE IF c = "\\" THEN
            IF multiline /\ e \in {" ", "\t", "\n"} THEN
                \* a line-ending backslash: the white space after it is dropped
                LET p1 == SkipChars(src, pos + 2, TomlWs)
                IN  IF e # "\n" /\ At(src, p1) \notin {"\n", "<EOF>"} THEN Fail(p1)
                    ELSE ParseBasicStr(src, SkipChars(src, pos + 2, TomlWs \cup {"\n"}),
                                       multiline, acc)
            ELSE IF e \in SimpleEscapes
                 THEN ParseBasicStr(src, pos + 2, multiline, Append(acc, EscapeOf(e)))
            ELSE CASE e \notin {"u", "U"} -> Fail(pos + 2)
        ELSE IF c \in (IF multiline THEN CtrlChars \ {"\t", "\n"} ELSE CtrlChars \ {"\t"})
             THEN Fail(pos)
        ELSE ParseBasicStr(src, pos + 1, multiline, Append(acc, c))

\* parse_multiline_str: pos is at the opening """; a newline right after it is
\* dropped, and one or two quotes right before the closing """ belong to the str
ParseMultilineStr(src, pos) ==
    LET start == IF At(src, pos + 3) = "\n" THEN pos + 4 ELSE pos + 3
        Closing(r) ==
            IF ~r.ok THEN r
            ELSE IF At(src, r.pos) # "\"" THEN r
            ELSE IF At(src, r.pos + 1) # "\""
                 THEN [ok |-> TRUE, pos |-> r.pos + 1, val |-> PyStr(Append(r.val.s, "\""))]
            ELSE [ok |-> TRUE, pos |-> r.pos + 2,
                  val |-> PyStr(r.val.s \o <<"\"", "\"">>)]
    IN  Closing(ParseBasicStr(src, start, TRUE, <<>>))

\* the decimal integer at pos (RE_NUMBER): 0, or a digit 1-9 and the digits
\* after it
ParseInt(src, pos) ==
    LET end == IF At(src, pos) = "0" THEN pos + 1 ELSE SkipChars(src, pos, DigitChars)
    IN  CASE At(src, end) \notin {".", "e", "E", "_", "-", ":", "x", "o", "b"} ->
            [ok |-> TRUE, pos |-> end, val |-> PyInt(StrToInt(SubSeq(src, pos, end - 1)))]

\* parse_value
ParseValue(src, pos) ==
    LET c == At(src, pos)
    IN  IF c = "\"" THEN
            IF StartsWith(src, pos, <<"\"", "\"", "\"">>)
            THEN ParseMultilineStr(src, pos)
            ELSE ParseBasicStr(src, pos + 1, FALSE, <<>>)
        ELSE IF c = "t" /\ StartsWith(src, pos, <<"t", "r", "u", "e">>)
             THEN [ok |-> TRUE, pos |-> pos + 4, val |-> PyBool(TRUE)]
        ELSE IF c = "f" /\ StartsWith(src, pos, <<"f", "a", "l", "s", "e">>)
             THEN [ok |-> TRUE, pos |-> pos + 5, val |-> PyBool(FALSE)]
        ELSE IF c \in DigitChars THEN ParseInt(src, pos)
        ELSE CASE /\ c \notin {"'", "[", "{", "+", "-"}
                  /\ ~StartsWith(src, pos, <<"i", "n", "f">>)
                  /\ ~StartsWith(src, pos, <<"n", "a", "n">>) -> Fail(pos)

\* the end of a statement: white space, then a newline or the end of the
\* document; the position after it, or 0 when something else follows
AfterStatement(src, pos) ==
    LET p == SkipChars(src, pos, TomlWs)
    IN  CASE At(src, p) # "#" ->
            IF At(src, p) = "<EOF>" THEN p
            ELSE IF At(src, p) = "\n" THEN p + 1
            ELSE 0

\* the loop of tomllib.loads from pos on: out is the dict built so far, header
\* the key of the table declared last (<<>> before any); [ok, out]
RECURSIVE ParseStatements(_, _, _, _)
ParseStatements(src, pos0, out, header) ==
    LET pos == SkipChars(src, pos0, TomlWs)
        c == At(src, pos)
    IN  IF c = "<EOF>" THEN [ok |-> TRUE, out |-> out]
        ELSE IF c = "\n" THEN ParseStatements(src, pos + 1, out, header)
        ELSE IF c \in BareKeyChars THEN
            \* key_value_rule
            LET kend == SkipChars(src, pos, BareKeyChars)
                table == IF header = <<>> THEN out ELSE Lookup(out, header).d
                Rule(key, eq, r) ==
                    IF At(src, eq) # "=" \/ ~r.ok \/ HasKey(table, key)
                           \/ AfterStatement(src, r.pos) = 0
                    THEN [ok |-> FALSE, out |-> out]
                    ELSE ParseStatements(src, AfterStatement(src, r.pos),
                            IF header = <<>> THEN Store(out, key, r.val)
                            ELSE Store(out, header, PyDict(Store(table, key, r.val))),
                            header)
                Value(eq) ==
                    CASE At(src, eq) # "." ->
                        Rule(SubSeq(src, pos, kend - 1), eq,
                             ParseValue(src, SkipChars(src, eq + 1, TomlWs)))
            IN  Value(SkipChars(src, kend, TomlWs))
        ELSE IF c = "[" THEN
            \* create_dict_rule
            LET kstart == SkipChars(src, pos + 1, TomlWs)
                kend == SkipChars(src, kstart, BareKeyChars)
                key == SubSeq(src, kstart, kend - 1)
                close == SkipChars(src, kend, TomlWs)
                next == AfterStatement(src, close + 1)
            IN  CASE At(src, pos + 1) # "[" /\ At(src, close) # "."
                     /\ At(src, kstart) \notin {"\"", "'"} ->
                    IF key = <<>> \/ At(src, close) # "]" \/ HasKey(out, key) \/ next = 0
                    THEN [ok |-> FALSE, out |-> out]
                    ELSE ParseStatements(src, next, Store(out, key, PyDict(<<>>)), key)
        ELSE CASE c \notin {"\"", "'", "#"} -> [ok |-> FALSE, out |-> out]

\* str.replace("\r\n", "\n"), the first thing tomllib.loads does
RECURSIVE DropCr(_)
DropCr(src) ==
    IF src = <<>> THEN <<>>
    ELSE IF StartsWith(src, 1, <<"\r", "\n">>) THEN DropCr(Tail(src))
    ELSE <<Head(src)>> \o DropCr(Tail(src))

\* load_config: {} when the file is missing or tomllib raises
load_config(f) ==
    LET Loaded(r) == IF r.ok THEN r.out ELSE <<>>
    IN  IF ~f.exists THEN <<>>
        ELSE Loaded(ParseStatements(DropCr(f.text), 1, <<>>, <<>>))

(***************************************************************************)
(* Session log                                                             *)
(***************************************************************************)
\* the default of read_session_file's limit parameter
DefaultSessionLimit == 10

\* str.split(sep) for a separator of several characters
RECURSIVE SplitOn(_, _)
SplitOn(s, sep) ==
    IF ~\E i \in 1..Len(s) : StartsWith(s, i, sep) THEN <<s>>
    ELSE LET i == CHOOSE i \in 1..Len(s) :
                      StartsWith(s, i, sep) /\ \A j \in 1..(i - 1) : ~StartsWith(s, j, sep)
         IN  <<SubSeq(s, 1, i - 1)>> \o SplitOn(SubSeq(s, i + Len(sep), Len(s)), sep)

PyWhitespace == {" ", "\n", "\t", "\r", "\f"}

\* str.strip()
RECURSIVE Strip(_)
Strip(s) ==
    IF s = <<>> THEN s
    ELSE IF Head(s) \in PyWhitespace THEN Strip(Tail(s))
    ELSE IF s[Len(s)] \in PyWhitespace THEN Strip(SubSeq(s, 1, Len(s) - 1))
    ELSE s

\* entries[-limit:]
LastSlice(entries, limit) ==
    LET n == Len(entries)
        first == IF limit > 0 THEN (IF limit >= n THEN 1 ELSE n - limit + 1)
                 ELSE IF limit = 0 THEN 1
                 ELSE (IF 0 - limit >= n THEN n + 1 ELSE 1 - limit)
    IN  SubSeq(entries, first, n)

\* [e.strip() for e in content.split("---") if e.strip()]
SessionEntries(content) ==
    LET pieces == SplitOn(content, <<"-", "-", "-">>)
        stripped == [i \in 1..Len(pieces) |-> Strip(pieces[i])]
    IN  SelectSeq(stripped, LAMBDA e : e # <<>>)

\* read_session_file(path, limit); path is None or a str, and log is the file
\* at that path
read_session_file(path, log, limit) ==
    IF ~Truthy(path) \/ ~log.exists THEN <<>>
    ELSE Join(LastSlice(SessionEntries(log.text), limit), <<"\n", "-", "-", "-", "\n">>)

(***************************************************************************)
(* Command line: parse_args                                                *)
(***************************************************************************)
S_config == <<"c", "o", "n", "f", "i", "g">>

S_set == <<"s", "e", "t">>

S_unset == <<"u", "n", "s", "e", "t">>

A_q == <<"-", "q">>

A_quiet == <<"-", "-", "q", "u", "i", "e", "t">>

A_model == <<"-", "-", "m", "o", "d", "e", "l">>

A_h == <<"-", "h">>

A_help == <<"-", "-", "h", "e", "l", "p">>

A_sources == <<"-", "-", "s", "o", "u", "r", "c", "e", "s">>

IsOption(tok) == tok # <<>> /\ tok[1] = "-"

\* parser.parse_known_args() on the arguments from position i on:
\* [status, quiet, model, remaining], status "help" for -h/--help (argparse
\* prints the help to stdout and exits 0) and "error" for --model without its
\* argument (argparse prints the usage to stderr and exits 2).  An option the
\* parser does not know goes to remaining; of those the model's command lines
\* hold only --sources.
RECURSIVE ParseKnownArgs(_, _, _)
ParseKnownArgs(argv, i, acc) ==
    IF i > Len(argv) THEN acc
    ELSE LET tok == argv[i]
         IN  IF tok \in {A_h, A_help} THEN [acc EXCEPT !.status = "help"]
             ELSE IF tok \in {A_q, A_quiet}
                  THEN ParseKnownArgs(argv, i + 1, [acc EXCEPT !.quiet = TRUE])
             ELSE IF tok = A_model THEN
                 IF i = Len(argv) \/ IsOption(argv[i + 1])
                 THEN [acc EXCEPT !.status = "error"]
                 ELSE ParseKnownArgs(argv, i + 2, [acc EXCEPT !.model = PyStr(argv[i + 1])])
             ELSE CASE ~IsOption(tok) \/ tok = A_sources ->
                 ParseKnownArgs(argv, i + 1,
                                [acc EXCEPT !.remaining = Append(acc.remaining, tok)])

\* parse_args: status is "ok", "help", "error" (argparse's own) or "usage" (the
\* usage error of set and unset)
parse_args(argv) ==
    LET known == ParseKnownArgs(argv, 1, [status |-> "ok", quiet |-> FALSE,
                                          model |-> PyNone, remaining |-> <<>>])
        remaining == known.remaining
        args == [status |-> known.status, quiet |-> known.quiet, model |-> known.model,
                 command |-> "none", sources |-> FALSE, key |-> <<>>, value |-> <<>>,
                 query |-> <<>>]
    IN  IF known.status # "ok" THEN args
        ELSE IF remaining # <<>> /\ remaining[1] = S_config
             THEN [args EXCEPT !.command = "config",
                               !.sources = \E i \in 1..Len(remaining) : remaining[i] = A_sources]
        ELSE IF remaining # <<>> /\ remaining[1] = S_set
             THEN IF Len(remaining) >= 3
                  THEN [args EXCEPT !.command = "set", !.key = remaining[2],
                                    !.value = remaining[3]]
                  ELSE [args EXCEPT !.command = "set", !.status = "usage"]
        ELSE IF remaining # <<>> /\ remaining[1] = S_unset
             THEN IF Len(remaining) >= 2
                  THEN [args EXCEPT !.command = "unset", !.key = remaining[2]]
                  ELSE [args EXCEPT !.command = "unset", !.status = "usage"]
        ELSE [args EXCEPT !.query = remaining]

(***************************************************************************)
(* Output.  An event is one print call: its stream, the function that      *)
(* printed it, and the text it was given ("<...>" stands for a symbol or a *)
(* fixed message).                                                         *)
(***************************************************************************)
EXIT_SUCCESS == 0

EXIT_ERROR == 1

EXIT_DESTRUCTIVE == 2

\* the status argparse exits with on a command line it rejects
ARGPARSE_ERROR == 2

Ev(stream, kind, text) == [stream |-> stream, kind |-> kind, text |-> text]

print_info(msg) == <<Ev("stderr", "info", msg)>>

print_warning(msg) == <<Ev("stderr", "warning", msg)>>

print_error(msg) == <<Ev("stderr", "error", msg)>>

\* print_explanation: the explanation, then a blank line and one code block
\* per step when there are steps
print_explanation(result) ==
    print_info(<<"<bulb>", " ">> \o result.explanation)
        \o (IF result.steps = <<>> THEN <<>>
            ELSE <<Ev("stderr", "blank", <<>>)>> \o
                 [i \in 1..Len(result.steps) |->
                     Ev("stderr", "code",
                        IntToStr(i) \o <<".", " ">> \o result.steps[i].command
                            \o <<"\n", " ", " ", " ", "#", " ">>
                            \o result.steps[i].explanation)])

print_danger_warning(result) ==
    IF result.is_destructive
    THEN print_warning(<<"<warning sign>", " ", " ">> \o result.danger_reason)
    ELSE <<>>

\* print(command): the text and a newline on stdout
output_command(command) == <<Ev("stdout", "print", command \o <<"\n">>)>>

get_exit_code(result) ==
    IF result.is_destructive THEN EXIT_DESTRUCTIVE ELSE EXIT_SUCCESS

(***************************************************************************)
(* Subcommands                                                             *)
(***************************************************************************)
UpperCase == <<"A", "B", "C", "D", "E", "F", "G", "H", "I", "J", "K", "L", "M",
               "N", "O", "P", "Q", "R", "S", "T", "U", "V", "W", "X", "Y", "Z">>

LowerCase == <<"a", "b", "c", "d", "e", "f", "g", "h", "i", "j", "k", "l", "m",
               "n", "o", "p", "q", "r", "s", "t", "u", "v", "w", "x", "y", "z">>

\* str.lower()
Lower(str) ==
    [i \in 1..Len(str) |->
        IF \E j \in 1..Len(UpperCase) : UpperCase[j] = str[i]
        THEN LowerCase[CHOOSE j \in 1..Len(UpperCase) : UpperCase[j] = str[i]]
        ELSE str[i]]

\* str.isdigit(), for the ASCII characters of the model
IsDigit(str) == str # <<>> /\ \A i \in 1..Len(str) : str[i] \in DigitChars

parse_bool(value) ==
    Lower(value) \in {S_true, <<"1">>, <<"y", "e", "s">>, <<"o", "n">>}

\* the coercion of cmd_set without the lower(): only "true" and "false" as
\* spelled become booleans
CoerceExact(value) ==
    IF value \in {S_true, S_false} THEN PyBool(value = S_true)
    ELSE IF IsDigit(value) THEN PyInt(StrToInt(value))
    ELSE PyStr(value)

\* cmd_set, "Parse value to appropriate type"
CoerceValue(value) ==
    IF Lower(value) \in {S_true, S_false} THEN PyBool(parse_bool(value))
    ELSE IF IsDigit(value) THEN PyInt(StrToInt(value))
    ELSE PyStr(value)

\* what load_config does to the file system
LoadOps(f) == IF f.exists THEN <<"exists", "read">> ELSE <<"exists">>

\* what save_config does to the file system
SaveOps == <<"mkdir", "write">>

\* the outcome of a handler before it has done anything: the exit status, the
\* events printed, the config file it leaves, its file system operations, the
\* value cmd_set stored, the rows cmd_config showed, and for the query path
\* the resolved quiet flag, the session file name, the session context and
\* the model name given to call_openai
Outcome(f) ==
    [exit |-> EXIT_SUCCESS, events |-> <<>>, file |-> f, fileOps |-> <<>>,
     stored |-> PyNone, rows |-> <<>>, quiet |-> PyNone, session_file |-> PyNone,
     session_context |-> <<>>, model |-> PyNone, called |-> FALSE,
     traceback |-> FALSE]

\* an exception nothing catches: the interpreter prints the traceback and
\* exits with status 1
Uncaught(out) ==
    [out EXCEPT !.exit = 1, !.traceback = TRUE,
                !.events = out.events \o <<Ev("stderr", "traceback", <<"<TypeError>">>)>>]

UnknownKey(key, f) ==
    [Outcome(f) EXCEPT
        !.exit = EXIT_ERROR,
        !.events = print_error(<<"<Unknown config key>">> \o key)
                       \o print_info(<<"<Valid keys>">>)]

\* cmd_set with the config file loaded before the key is checked
CmdSetLoadFirst(key, value, f) ==
    IF key \notin VALID_CONFIG_KEYS
    THEN [UnknownKey(key, f) EXCEPT !.fileOps = LoadOps(f)]
    ELSE LET out == [Outcome(f) EXCEPT !.fileOps = LoadOps(f),
                                       !.stored = CoerceValue(value)]
             Saved(r) ==
                 IF r.raised THEN Uncaught(out)
                 ELSE [out EXCEPT !.file = save_config(r.cfg),
                                  !.fileOps = LoadOps(f) \o SaveOps,
                                  !.events = print_info(<<"<Set>">> \o key)]
         IN  Saved(set_nested(load_config(f), key, CoerceValue(value)))

\* cmd_set, and the sys.exit(EXIT_SUCCESS) of main after it
cmd_set(key, value, f) ==
    IF key \notin VALID_CONFIG_KEYS THEN UnknownKey(key, f)
    ELSE LET out == [Outcome(f) EXCEPT !.fileOps = LoadOps(f),
                                       !.stored = CoerceValue(value)]
             Saved(r) ==
                 IF r.raised THEN Uncaught(out)
                 ELSE [out EXCEPT !.file = save_config(r.cfg),
                                  !.fileOps = LoadOps(f) \o SaveOps,
                                  !.events = print_info(<<"<Set>">> \o key)]
         IN  Saved(set_nested(load_config(f), key, CoerceValue(value)))

\* cmd_unset, and the sys.exit(EXIT_SUCCESS) of main after it
cmd_unset(key, f) ==
    IF key \notin VALID_CONFIG_KEYS THEN UnknownKey(key, f)
    ELSE LET out == [Outcome(f) EXCEPT !.fileOps = LoadOps(f)]
             Saved(r) ==
                 IF r.raised THEN Uncaught(out)
                 ELSE IF r.ret
                      THEN [out EXCEPT !.file = save_config(r.cfg),
                                       !.fileOps = LoadOps(f) \o SaveOps,
                                       !.events = print_info(<<"<Unset>">> \o key)]
                      ELSE [out EXCEPT !.events = print_warning(key \o <<"<was not set>">>)]
         IN  Saved(unset_nested(load_config(f), key))

DEFAULT_MODEL == <<"g", "p", "t", "-", "5", ".", "1", "-", "2", "0", "2", "5", "-", "1", "1", "-", "1", "3">>

DEFAULT_QUIET == FALSE

DEFAULT_SESSION_DIR == <<"~", "/", ".", "s", "h", "a", "i", "_", "s", "e", "s", "s", "i", "o", "n">>

DEFAULT_FEEDBACK_FILE == <<"~", "/", ".", "s", "h", "a", "i", "_", "f", "e", "e", "d", "b", "a", "c", "k", ".", "j", "s", "o", "n", "l">>

\* the default cmd_config shows for session.size
CONFIG_SESSION_SIZE == 50

\* str(value) for a bool, an int or a str
PyStrOf(value) ==
    CASE value.t = "bool" -> IF value.b THEN <<"T", "r", "u", "e">>
                             ELSE <<"F", "a", "l", "s", "e">>
      [] value.t = "int" -> IntToStr(value.n)
      [] value.t = "str" -> value.s

\* the settings list of cmd_config: key, environment variable, default
Settings ==
    << <<S_model, "SHAI_MODEL", PyStr(DEFAULT_MODEL)>>,
       <<S_quiet, "SHAI_QUIET", PyBool(DEFAULT_QUIET)>>,
       <<Dotted(S_session, S_enabled), "SHAI_SESSION_ENABLED", PyBool(FALSE)>>,
       <<Dotted(S_session, S_dir), "SHAI_SESSION_DIR", PyStr(DEFAULT_SESSION_DIR)>>,
       <<Dotted(S_session, S_size), "SHAI_SESSION_SIZE", PyInt(CONFIG_SESSION_SIZE)>>,
       <<Dotted(S_aliases, S_enabled), "SHAI_ALIASES_ENABLED", PyBool(FALSE)>>,
       <<Dotted(S_feedback, S_file), "SHAI_FEEDBACK_FILE", PyStr(DEFAULT_FEEDBACK_FILE)>> >>

\* cmd_config: the table goes to stderr, with the source column on --sources
cmd_config(sources, env, f) ==
    LET cfg == load_config(f)
        Row(setting) ==
            LET r == resolve_config_value(setting[1], PyNone, setting[2], env, cfg,
                                          setting[3])
            IN  [key |-> setting[1], value |-> PyStrOf(r.value),
                 source |-> IF sources THEN r.source ELSE ""]
    IN  [Outcome(f) EXCEPT
            !.fileOps = LoadOps(f),
            !.rows = [i \in 1..Len(Settings) |-> Row(Settings[i])],
            !.events = <<Ev("stderr", "table", <<"<ShAI Configuration>">>),
                         Ev("stderr", "print", <<"<Config file>">>)>>]

(***************************************************************************)
(* main                                                                    *)
(***************************************************************************)
\* os.path.expanduser for "~" and "~/..."
ExpandUser(path) ==
    IF path # <<>> /\ path[1] = "~" THEN <<"<HOME>">> \o Tail(path) ELSE path

\* the try block of main: the events it prints, and the exception that ends
\* it: what call_openai raised, or the SystemExit of sys.exit with its code
TryBlock(api, quiet) ==
    IF api.kind = "raise"
    THEN [events |-> <<>>, exc |-> "Exception", code |-> EXIT_ERROR]
    ELSE [events |-> (IF ~Truthy(quiet) THEN print_explanation(api.result) ELSE <<>>)
                        \o print_danger_warning(api.result)
                        \o output_command(api.result.command),
          exc |-> "SystemExit", code |-> get_exit_code(api.result)]

\* a handler that catches everything (`except BaseException`, or a bare except)
CatchesBaseException(exc) == TRUE

\* `except Exception`: SystemExit derives from BaseException, not from Exception
CatchesException(exc) == exc # "SystemExit"

\* main from require_api_key on: the default (query) path
QueryPath(args, env, f, log, api) ==
    IF ~Truthy(EnvGet(env, "OPENAI_API_KEY"))
    THEN [Outcome(f) EXCEPT !.exit = EXIT_ERROR,
                            !.events = print_error(<<"<OPENAI_API_KEY not set>">>)]
    ELSE IF args.query = <<>>
    THEN [Outcome(f) EXCEPT !.exit = EXIT_ERROR,
                            !.events = print_error(<<"<No query provided>">>)]
    ELSE LET Resolved(model, quiet, session_enabled, session_dir) ==
                 LET session_file ==
                         IF Truthy(session_enabled)
                         THEN PyStr(ExpandUser(session_dir.s) \o <<"/">> \o S_session)
                         ELSE PyNone
                     out == [Outcome(f) EXCEPT !.fileOps = LoadOps(f), !.quiet = quiet,
                                               !.model = model]
                     Tried(ran, try) ==
                         IF CatchesException(try.exc)
                         THEN [ran EXCEPT !.exit = EXIT_ERROR,
                                          !.events = try.events
                                                         \o print_error(<<"<Error>">>)]
                         ELSE [ran EXCEPT !.exit = try.code, !.events = try.events]
                 IN  IF Truthy(session_enabled) /\ session_dir.t # "str"
                     THEN Uncaught(out)    \* expanduser of an int or a bool
                     ELSE Tried([out EXCEPT
                                    !.session_file = session_file,
                                    !.session_context =
                                        read_session_file(session_file, log,
                                                          DefaultSessionLimit),
                                    !.called = TRUE],
                                TryBlock(api, quiet))
             Loaded(cfg) ==
                 Resolved(
                     resolve_config_value(S_model, args.model, "SHAI_MODEL", env, cfg,
                                          PyStr(DEFAULT_MODEL)).value,
                     resolve_config_value(S_quiet,
                                          IF args.quiet THEN PyBool(TRUE) ELSE PyNone,
                                          "SHAI_QUIET", env, cfg,
                                          PyBool(DEFAULT_QUIET)).value,
                     resolve_config_value(Dotted(S_session, S_enabled), PyNone,
                                          "SHAI_SESSION_ENABLED", env, cfg,
                                          PyBool(FALSE)).value,
                     resolve_config_value(Dotted(S_session, S_dir), PyNone,
                                          "SHAI_SESSION_DIR", env, cfg,
                                          PyStr(DEFAULT_SESSION_DIR)).value)
         IN  Loaded(load_config(f))

\* main(): the whole process, from its command line, environment, config file
\* and session file to its outcome; api is what call_openai does if called
main(argv, env, f, log, api) ==
    LET Dispatch(args) ==
            IF args.status = "help"
            THEN [Outcome(f) EXCEPT !.events = <<Ev("stdout", "help", <<"<help>">>)>>]
            ELSE IF args.status = "error"
            THEN [Outcome(f) EXCEPT !.exit = ARGPARSE_ERROR,
                                    !.events = <<Ev("stderr", "usage", <<"<usage>">>)>>]
            ELSE IF args.status = "usage"
            THEN [Outcome(f) EXCEPT !.exit = EXIT_ERROR,
                                    !.events = print_error(<<"<Usage>">>)]
            ELSE IF args.command = "config" THEN cmd_config(args.sources, env, f)
            ELSE IF args.command = "set" THEN cmd_set(args.key, args.value, f)
            ELSE IF args.command = "unset" THEN cmd_unset(args.key, f)
            ELSE QueryPath(args, env, f, log, api)
    IN  Dispatch(parse_args(argv))

\* which path of main a command line takes
PathOf(argv) ==
    LET args == parse_args(argv)
    IN  IF args.status # "ok" THEN args.status
        ELSE IF args.command = "none" THEN "query"
        ELSE args.command

(***************************************************************************)
(* SpecStore: set_nested and unset_nested applied to a map in memory       *)
(***************************************************************************)
MaxDepth == 3

MaxOps == 2

StoreParts == {<<"a">>, <<"b">>}

\* the dotted keys of 1..MaxDepth parts
StoreKeys ==
    { Join(ps, <<".">>) : ps \in UNION { [1..n -> StoreParts] : n \in 1..MaxDepth } }

StoreValues == { PyBool(TRUE), PyInt(7), PyStr(<<"a">>) }

StoreInit ==
    /\ config = <<>>
    /\ op = NoOp
    /\ file = NoFile
    /\ environ = <<>>
    /\ sessionLog = NoFile
    /\ run = NoRun
    /\ steps = 0

\* config is left as it was when the call raises
DoSet(key, value) ==
    LET r == set_nested(config, key, value)
    IN  /\ steps < MaxOps
        /\ config' = r.cfg
        /\ op' = [kind |-> "set", key |-> key, value |-> value,
                  raised |-> r.raised, ret |-> FALSE, before |-> config]
        /\ steps' = steps + 1
        /\ UNCHANGED <<file, environ, sessionLog, run>>

DoUnset(key) ==
    LET r == unset_nested(config, key)
    IN  /\ steps < MaxOps
        /\ config' = r.cfg
        /\ op' = [kind |-> "unset", key |-> key, value |-> PyNone,
                  raised |-> r.raised, ret |-> r.ret, before |-> config]
        /\ steps' = steps + 1
        /\ UNCHANGED <<file, environ, sessionLog, run>>

StoreNext ==
    \/ \E key \in StoreKeys, value \in StoreValues : DoSet(key, value)
    \/ \E key \in StoreKeys : DoUnset(key)

SpecStore == StoreInit /\ [][StoreNext]_vars

(***************************************************************************)
(* SpecResolve: resolve_config_value applied to every combination of its   *)
(* sources                                                                 *)
(***************************************************************************)
Item(k, v) == [k |-> k, v |-> v]

ResolveKeys == { S_model, S_quiet, Dotted(S_session, S_dir) }

\* cli_value: absent, or present (an empty str and False are present too)
ResolveCli == { PyNone, PyStr(<<"c">>), PyStr(<<>>), PyBool(TRUE), PyBool(FALSE) }

\* the environment variable: unset, empty, non-empty
ResolveEnv ==
    { [set |-> FALSE, val |-> <<>>], [set |-> TRUE, val |-> <<>>],
      [set |-> TRUE, val |-> <<"e">>] }

\* config maps: no key, each key alone, a section without the key, a scalar
\* where the section is expected, and all keys together
ResolveConfigs ==
    { <<>>,
      <<Item(S_model, PyStr(<<"m">>))>>,
      <<Item(S_quiet, PyBool(FALSE))>>,
      <<Item(S_session, PyDict(<<>>))>>,
      <<Item(S_session, PyStr(<<"s">>))>>,
      <<Item(S_session, PyDict(<<Item(S_dir, PyStr(<<"d">>))>>))>>,
      <<Item(S_model, PyStr(<<>>)), Item(S_quiet, PyBool(TRUE)),
        Item(S_session, PyDict(<<Item(S_dir, PyInt(0))>>))>> }

ResolveDefaults == { PyStr(<<"z">>), PyBool(FALSE) }

ResolveInit ==
    /\ config \in ResolveConfigs
    /\ \E e \in ResolveEnv : environ = [n \in {"SHAI_VAR"} |-> e]
    /\ \E key \in ResolveKeys, cli \in ResolveCli,
          env_var \in {"SHAI_VAR", ""}, default \in ResolveDefaults :
           op = [kind |-> "args", key |-> key, cli |-> cli, env_var |-> env_var,
                 default |-> default, value |-> PyNone, source |-> ""]
    /\ file = NoFile
    /\ sessionLog = NoFile
    /\ run = NoRun
    /\ steps = 0

Resolve ==
    /\ op.kind = "args"
    /\ LET r == resolve_config_value(op.key, op.cli, op.env_var, environ, config,
                                     op.default)
       IN  op' = [op EXCEPT !.kind = "resolve", !.value = r.value, !.source = r.source]
    /\ steps' = steps + 1
    /\ UNCHANGED <<config, file, environ, sessionLog, run>>

ResolveNext == Resolve

SpecResolve == ResolveInit /\ [][ResolveNext]_vars

(***************************************************************************)
(* SpecToml: save_config and load_config applied in turn to maps of        *)
(* allow-listed keys                                                       *)
(***************************************************************************)
MaxStrLen == 2

MaxSaves == 2

TomlAlphabet == {"a", "\"", "\\"}

\* every str over the alphabet of at most MaxStrLen characters
TomlStrings == UNION { [1..n -> TomlAlphabet] : n \in 0..MaxStrLen }

TomlValues ==
    {PyBool(TRUE), PyBool(FALSE), PyInt(0), PyInt(42)}
        \cup {PyStr(x) : x \in TomlStrings}

\* model and session.dir each absent or holding any value; the section may
\* also be there and empty, as unset leaves it
TomlConfigs ==
    LET tops == {<<>>} \cup { <<Item(S_model, v)>> : v \in TomlValues }
        sections == {<<>>, <<Item(S_session, PyDict(<<>>))>>}
                      \cup { <<Item(S_session, PyDict(<<Item(S_dir, v)>>))>> :
                                v \in TomlValues }
    IN  { t \o x : t \in tops, x \in sections }

TomlInit ==
    /\ config \in TomlConfigs
    /\ op = [kind |-> "init", saved |-> <<>>]
    /\ file = NoFile
    /\ environ = <<>>
    /\ sessionLog = NoFile
    /\ run = NoRun
    /\ steps = 0

\* save_config(config)
Save ==
    /\ op.kind \in {"init", "load"}
    /\ steps < MaxSaves
    /\ file' = save_config(config)
    /\ op' = [kind |-> "save", saved |-> config]
    /\ steps' = steps + 1
    /\ UNCHANGED <<config, environ, sessionLog, run>>

\* config = load_config()
Load ==
    /\ op.kind = "save"
    /\ config' = load_config(file)
    /\ op' = [op EXCEPT !.kind = "load"]
    /\ UNCHANGED <<file, environ, sessionLog, run, steps>>

TomlNext == Save \/ Load

SpecToml == TomlInit /\ [][TomlNext]_vars

(***************************************************************************)
(* Spec: the program run from a shell, one invocation after the other, on  *)
(* a config file that persists between them                                *)
(***************************************************************************)
SmallLog == 3

LargeLog == 12

\* a session file of n entries, the entry i being the number i
LogOf(n) ==
    [exists |-> TRUE,
     text |-> Join([i \in 1..n |-> IntToStr(i)], <<"\n", "-", "-", "-", "\n">>)
                  \o <<"\n", "-", "-", "-", "\n">>]

Logs == {NoFile, LogOf(SmallLog), LogOf(LargeLog)}

\* config files a user may have left: none, one that is no TOML, one with a
\* scalar where the session section is expected, and a valid one
InitFiles ==
    { NoFile,
      [exists |-> TRUE, text |-> <<"=", "\n">>],
      save_config(<<Item(S_session, PyInt(5))>>),
      save_config(<<Item(S_quiet, PyBool(FALSE)),
                    Item(S_session, PyDict(<<Item(S_enabled, PyBool(TRUE)),
                                             Item(S_size, PyInt(2))>>))>>) }

EnvNames ==
    { "OPENAI_API_KEY", "SHAI_MODEL", "SHAI_QUIET", "SHAI_SESSION_ENABLED",
      "SHAI_SESSION_DIR", "SHAI_SESSION_SIZE", "SHAI_ALIASES_ENABLED",
      "SHAI_FEEDBACK_FILE" }

EnvOf(given) ==
    [n \in EnvNames |->
        IF n \in DOMAIN given THEN [set |-> TRUE, val |-> given[n]]
        ELSE [set |-> FALSE, val |-> <<>>]]

\* environments: no credential; the credential alone; the boolean settings
\* overridden by false spellings; the settings overridden by true spellings,
\* a size and a model
Envs ==
    { EnvOf(<<>>),
      EnvOf("OPENAI_API_KEY" :> <<"k">>),
      EnvOf("OPENAI_API_KEY" :> <<"k">> @@ "SHAI_QUIET" :> S_false
                @@ "SHAI_SESSION_ENABLED" :> <<"0">>),
      EnvOf("OPENAI_API_KEY" :> <<"k">> @@ "SHAI_QUIET" :> <<"1">>
                @@ "SHAI_SESSION_ENABLED" :> S_true @@ "SHAI_SESSION_SIZE" :> <<"2">>
                @@ "SHAI_MODEL" :> <<"e">>) }

\* what call_openai does: it raises, or it returns a CommandResponse
ApiRaises ==
    [kind |-> "raise",
     result |-> [command |-> <<>>, explanation |-> <<>>, steps |-> <<>>,
                 is_destructive |-> FALSE, danger_reason |-> <<>>]]

ApiOutcomes ==
    { ApiRaises,
      [kind |-> "response",
       result |-> [command |-> <<"l", "s">>, explanation |-> <<"x">>, steps |-> <<>>,
                   is_destructive |-> FALSE, danger_reason |-> <<>>]],
      [kind |-> "response",
       result |-> [command |-> <<"l", "s">>, explanation |-> <<"x">>, steps |-> <<>>,
                   is_destructive |-> FALSE, danger_reason |-> <<"n">>]],
      [kind |-> "response",
       result |-> [command |-> <<"r", "m", " ", "f">>, explanation |-> <<"y">>,
                   steps |-> <<[command |-> <<"r", "m">>, explanation |-> <<"z">>]>>,
                   is_destructive |-> TRUE, danger_reason |-> <<"d">>]] }

\* keys given to set and unset: two of the allow-list, a section name and a
\* name that is no key at all
CliKeys == { S_model, Dotted(S_session, S_size), S_session, <<"x">> }

CliValues ==
    { S_true, S_false, <<"T", "R", "U", "E">>, <<"4", "2">>, <<"0", "0", "7">>,
      <<"f", "o", "o">>, <<"a", "\"", "b">> }

CliQuery == << <<"l", "i", "s", "t">>, <<"f", "i", "l", "e", "s">> >>

\* set: every value with the key model, and one value with each other key
SetArgvs ==
    { <<S_set, S_model, v>> : v \in CliValues }
        \cup { <<S_set, k, <<"4", "2">>>> : k \in CliKeys }

Argvs ==
    { <<S_config>>, <<S_config, A_sources>> }
        \cup SetArgvs
        \cup { <<S_unset, k>> : k \in CliKeys }
        \cup { <<S_set>>, <<S_set, S_model>>, <<S_unset>> }
        \cup { <<>>, CliQuery, <<A_q>> \o CliQuery, <<A_model, <<"m">>>> \o CliQuery }
        \cup { <<A_h>>, <<S_set, S_model, <<"4", "2">>, A_help>>, <<A_model>> }

Init ==
    /\ config = <<>>
    /\ op = NoOp
    /\ file \in InitFiles
    /\ environ \in Envs
    /\ sessionLog \in Logs
    /\ run = NoRun
    /\ steps = 0

\* one process: main() on this command line, from start to exit
Run(argv, api) ==
    LET Exit(out) ==
            /\ run' = [cmd |-> PathOf(argv), argv |-> argv, api |-> api, before |-> file,
                       out |-> out]
            /\ file' = out.file
    IN  /\ run.cmd = "none"
        /\ Exit(main(argv, environ, file, sessionLog, api))
        /\ UNCHANGED <<config, op, environ, sessionLog, steps>>

MainConfig == \E argv \in Argvs : PathOf(argv) = "config" /\ Run(argv, ApiRaises)

MainSet == \E argv \in Argvs : PathOf(argv) = "set" /\ Run(argv, ApiRaises)

MainUnset == \E argv \in Argvs : PathOf(argv) = "unset" /\ Run(argv, ApiRaises)

\* the default path; call_openai, if main gets to it, does any of ApiOutcomes
MainQuery ==
    \E argv \in Argvs :
        /\ PathOf(argv) = "query"
        /\ \E api \in ApiOutcomes :
               /\ api # ApiRaises =>
                      main(argv, environ, file, sessionLog, ApiRaises).called
               /\ Run(argv, api)

\* a command line parse_args ends the process on: -h, an argparse error, or
\* set/unset without their arguments
MainRejected ==
    \E argv \in Argvs : PathOf(argv) \in {"help", "error", "usage"} /\ Run(argv, ApiRaises)

\* the process has exited and the shell prompts again
Prompt ==
    /\ run.cmd # "none"
    /\ run' = NoRun
    /\ UNCHANGED <<config, op, file, environ, sessionLog, steps>>

Next == MainConfig \/ MainSet \/ MainUnset \/ MainQuery \/ MainRejected \/ Prompt

Spec == Init /\ [][Next]_vars

(***************************************************************************)
(* Claims about the store (SpecStore)                                      *)
(***************************************************************************)
\* the parts of key a are a prefix of the parts of key b, or the other way round
OnOnePath(a, b) ==
    LET pa == Split(a, ".")
        pb == Split(b, ".")
        n == IF Len(pa) < Len(pb) THEN Len(pa) ELSE Len(pb)
    IN  SubSeq(pa, 1, n) = SubSeq(pb, 1, n)

\* C4: for every map, dotted key and value v, set_nested(map, key, v) followed
\* by get_nested(map, key) returns v; this includes a map in which a prefix of
\* the key already holds a scalar instead of a section.
C4_SetThenGet ==
    op.kind = "set" =>
        /\ ~op.raised
        /\ get_nested(config, op.key, PyNone) = op.value

\* C5: unset_nested on a key that is not set returns false and leaves the map
\* unchanged; on a key that is set it returns true, removes only that key, and
\* get_nested on the key then returns the default (None).
C5_Unset ==
    op.kind = "unset" =>
        /\ ~op.raised
        /\ IF get_nested(op.before, op.key, PyNone) = PyNone
           THEN ~op.ret /\ config = op.before
           ELSE /\ op.ret
                /\ get_nested(config, op.key, PyNone) = PyNone
                /\ \A k \in StoreKeys :
                       ~OnOnePath(k, op.key) =>
                           get_nested(config, k, PyNone) = get_nested(op.before, k, PyNone)

(***************************************************************************)
(* Claims about the resolver (SpecResolve)                                 *)
(***************************************************************************)
\* the config map holds the dotted key (of one or two parts): every part but
\* the last names a section and the last is a key of it
ConfigHolds(cfg, key) ==
    LET ps == Split(key, ".")
    IN  IF Len(ps) = 1 THEN HasKey(cfg, ps[1])
        ELSE /\ HasKey(cfg, ps[1])
             /\ IsDict(Lookup(cfg, ps[1]))
             /\ HasKey(Lookup(cfg, ps[1]).d, ps[2])

ConfigValue(cfg, key) ==
    LET ps == Split(key, ".")
    IN  IF Len(ps) = 1 THEN Lookup(cfg, ps[1])
        ELSE Lookup(Lookup(cfg, ps[1]).d, ps[2])

EnvNonEmpty(env, name) == name \in DOMAIN env /\ env[name].set /\ env[name].val # <<>>

\* C1: resolve_config_value returns the value of the highest-priority source
\* that is present, CLI > environment > config file > default, with that
\* source's name; an unset or empty environment variable and a key whose
\* section is missing count as absent.
C1_Precedence ==
    op.kind = "resolve" =>
        IF op.cli # PyNone
        THEN op.value = op.cli /\ op.source = "cli"
        ELSE IF EnvNonEmpty(environ, op.env_var)
        THEN op.value = PyStr(environ[op.env_var].val) /\ op.source = "env"
        ELSE IF ConfigHolds(config, op.key)
        THEN op.value = ConfigValue(config, op.key) /\ op.source = "config"
        ELSE op.value = op.default /\ op.source = "default"

\* all three of CLI, environment and config file supply the key, and the CLI wins
C1_Witness ==
    /\ op.kind = "resolve"
    /\ op.cli # PyNone
    /\ EnvNonEmpty(environ, op.env_var)
    /\ ConfigHolds(config, op.key)
    /\ op.source = "cli"

(***************************************************************************)
(* Claims about the config file (SpecToml)                                 *)
(***************************************************************************)
\* C6: for any map of allow-listed keys with str, bool or int values (a str
\* may hold quotes and backslashes, a section may be empty), save followed by
\* load returns a map equal to the one saved, the first time and every time
\* after it.
C6_RoundTrip ==
    op.kind = "load" => PyEq(PyDict(config), PyDict(op.saved))

(***************************************************************************)
(* Claims about the command line (Spec)                                    *)
(***************************************************************************)
\* the process that just exited took the query path, call_openai was called
\* and returned a response
Answered ==
    /\ run.cmd = "query"
    /\ run.out.called
    /\ run.api.kind = "response"

\* the events of one stream, in the order they were printed
OnStream(events, stream) == SelectSeq(events, LAMBDA e : e.stream = stream)

\* a str other than "" that parse_bool reads as false
FalseSpellings == { S_false, <<"0">> }

C3_UnknownKeyUntouched ==
    (run.cmd \in {"set", "unset"} /\ run.argv[2] \notin VALID_CONFIG_KEYS) =>
        /\ run.out.exit = 1
        /\ run.out.fileOps = <<>>
        /\ file = run.before

\* set with an unknown key while the config file holds text that is no TOML
C3_Witness ==
    /\ run.cmd = "set"
    /\ run.argv[2] \notin VALID_CONFIG_KEYS
    /\ run.before = [exists |-> TRUE, text |-> <<"=", "\n">>]
    /\ run.out.exit = 1
    /\ file = run.before

\* set with an allow-listed key got as far as set_nested, which did not raise
SetStored ==
    /\ run.cmd = "set"
    /\ run.argv[2] \in VALID_CONFIG_KEYS
    /\ ~run.out.traceback

ConfiguredSize ==
    LET size == resolve_config_value(Dotted(S_session, S_size), PyNone,
                                     "SHAI_SESSION_SIZE", environ,
                                     load_config(run.before), PyInt(10)).value
    IN  IF size.t = "int" THEN size.n
        ELSE IF size.t = "str" /\ IsDigit(size.s) THEN StrToInt(size.s)
        ELSE 10

\* the last `size` of the entries 1..n, joined as read_session_file joins them
LastEntries(n, size) ==
    LET m == IF size < n THEN size ELSE n
    IN  Join([i \in 1..m |-> IntToStr(n - m + i)], <<"\n", "-", "-", "-", "\n">>)

\* C8: with the session context enabled, the context read back is the most
\* recent N entries of the session log in their order, N being the configured
\* session size (session.size / SHAI_SESSION_SIZE), 10 when not configured.
C8_SessionSize ==
    (run.cmd = "query" /\ run.out.called /\ Truthy(run.out.session_file)) =>
        \A n \in {SmallLog, LargeLog} :
            sessionLog = LogOf(n) =>
                run.out.session_context = LastEntries(n, ConfiguredSize)

\* C9: stdout receives nothing, or exactly the command and a newline, once;
\* only on the query path after call_openai returned; never on the config,
\* set and unset paths, nor on a path that exits with status 1.
C9_StdoutOnlyCommand ==
    run.cmd # "none" =>
        LET out == OnStream(run.out.events, "stdout")
        IN  /\ \/ out = <<>>
               \/ /\ Answered
                  /\ Len(out) = 1
                  /\ out[1].text = run.api.result.command \o <<"\n">>
            /\ run.argv # <<>> /\ run.argv[1] \in {S_config, S_set, S_unset} => out = <<>>
            /\ run.out.exit = 1 => out = <<>>

\* C10: with SHAI_QUIET set to a false spelling the explanation is printed,
\* and with SHAI_SESSION_ENABLED set to one the session log is not read, as
\* when the config file holds false for the key.
C10_FalseSpelling ==
    (Answered /\ A_q \notin {run.argv[i] : i \in 1..Len(run.argv)}) =>
        /\ (environ["SHAI_QUIET"].set /\ environ["SHAI_QUIET"].val \in FalseSpellings) =>
               \E i \in 1..Len(run.out.events) :
                   /\ run.out.events[i].kind = "info"
                   /\ IsSubstring(run.api.result.explanation, run.out.events[i].text)
        /\ (/\ environ["SHAI_SESSION_ENABLED"].set
            /\ environ["SHAI_SESSION_ENABLED"].val \in FalseSpellings) =>
               /\ run.out.session_file = PyNone
               /\ run.out.session_context = <<>>

====
